---- MODULE Spec2Model ----
(***************************************************************************)
(* Voice Dictator (src/dictator_app.py, and src/dictator.py, which is the  *)
(* same state machine without the duration/energy gates and the history).  *)
(*                                                                         *)
(* Threads of the program:                                                 *)
(*   - the key-listener thread, which runs on_press / on_release and,      *)
(*     inline, start_recording;                                            *)
(*   - one stop worker per threading.Thread(target=stop_recording).start() *)
(*   - the audio I/O context, which runs callback for every started stream *)
(* The globals recording, audio_data and stream are shared without any     *)
(* lock, so every read or write of a global is a step of its own and the   *)
(* steps of different threads interleave freely.  toggle_mode and          *)
(* shift_held are read and written by the key-listener thread only, so     *)
(* the dispatch of a key event is one step.                                *)
(*                                                                         *)
(* Key events come from physical keys: a key is pressed when it is up and  *)
(* released when it is down (modifier keys do not auto-repeat).            *)
(***************************************************************************)
EXTENDS Naturals, Sequences, FiniteSets

\* ---------------------------------------------------------------- bounds
MaxWorkers == 2      \* stop worker threads spawned in one run
MaxSessions == 2     \* start_recording calls that pass their check
MaxFrames == 1       \* chunks delivered to callback and appended in one run
MaxChunks == 2       \* chunks of a recorded buffer handed to the gates

\* ------------------------------------------------------ program constants
SAMPLE_RATE == 16000
MAX_HISTORY == 10
\* MIN_AUDIO_DURATION = 0.5 as the fraction MinDurNum / MinDurDen
MinDurNum == 1
MinDurDen == 2
\* MIN_AUDIO_ENERGY = 0.001; amplitudes are integers in units of 0.001
MIN_AUDIO_ENERGY == 1

\* the number of samples of one chunk delivered to callback: half a second
BlockSizes == {SAMPLE_RATE \div 2}
\* amplitude of the samples of one chunk (constant over the chunk)
Levels == {0, 2}

\* chunk sizes and amplitudes of the recorded buffers the gates are run on: a
\* quarter of a second, one sample less than half a second, half a second; silence,
\* the energy threshold itself, twice the threshold
GateBlockSizes == {SAMPLE_RATE \div 4, SAMPLE_RATE \div 2 - 1, SAMPLE_RATE \div 2}
GateLevels == {0, 1, 2}
GateChunks == [n : GateBlockSizes, amp : GateLevels]
GateBuffers == UNION { [1..l -> GateChunks] : l \in 0..MaxChunks }

Workers == 1..MaxWorkers
Sessions == 1..MaxSessions

\* the engine's raw output, as sequences of characters
EngineTexts == { <<" ">>, <<" ", "a">>, <<"b", " ">> }

VARIABLES
    recording,    \* global recording
    toggle_mode,  \* global toggle_mode
    shift_held,   \* global shift_held
    audio_data,   \* global audio_data: the list object it is bound to (0: the initial [])
    bufs,         \* contents of every list object audio_data was ever bound to
    stream,       \* global stream: the stream object it is bound to (0: unbound)
    streams,      \* state of every sd.InputStream object
    title,        \* app.title
    history,      \* the deque history
    clipboard,    \* the system clipboard (pyperclip)
    pasted,       \* the Cmd+V keystrokes sent, each with the clipboard it pasted
    lpc,          \* position of the key-listener thread
    holdDown,     \* physical state of HOLD_KEY
    shiftDown,    \* physical state of Key.shift
    nsess,        \* number of sessions started so far
    nworkers,     \* number of stop workers spawned so far
    wpc,          \* position of every stop worker
    audio,        \* stop worker local: audio (the concatenated chunks)
    text,         \* stop worker local: text
    evals,        \* history variable: how often each list object reached line 97
    held_start    \* history variable: what the hold-key press now held has done: issued
                  \* a "stop", started a "momentary" or a "continuous" session, or "none"

vars == << recording, toggle_mode, shift_held, audio_data, bufs, stream, streams,
           title, history, clipboard, pasted, lpc, holdDown, shiftDown, nsess,
           nworkers, wpc, audio, text, evals, held_start >>

shared == << recording, toggle_mode, shift_held, audio_data, bufs, stream, streams,
             title, history, clipboard, pasted >>
keys == << holdDown, shiftDown >>
wlocals == << audio, text >>
ghosts == << evals, held_start >>

\* ------------------------------------------------------------- helpers
\* str.strip(): drop the leading and the trailing whitespace
RECURSIVE lstrip(_)
lstrip(t) == IF t # <<>> /\ Head(t) = " " THEN lstrip(Tail(t)) ELSE t

RECURSIVE rstrip(_)
rstrip(t) == IF t # <<>> /\ t[Len(t)] = " " THEN rstrip(SubSeq(t, 1, Len(t) - 1)) ELSE t

strip(t) == rstrip(lstrip(t))

\* len(audio): np.concatenate(...).flatten() has one sample per sample of every chunk
RECURSIVE NumSamples(_)
NumSamples(a) == IF a = <<>> THEN 0 ELSE a[1].n + NumSamples(Tail(a))

\* sum(audio ** 2)
RECURSIVE SumSquares(_)
SumSquares(a) ==
    IF a = <<>> THEN 0 ELSE a[1].n * a[1].amp * a[1].amp + SumSquares(Tail(a))

\* duration = len(audio) / SAMPLE_RATE;  duration < MIN_AUDIO_DURATION
TooShort(a) == NumSamples(a) * MinDurDen < MinDurNum * SAMPLE_RATE

\* rms_energy = sqrt(mean(audio ** 2));  rms_energy < MIN_AUDIO_ENERGY
\* (both sides are >= 0, so the comparison is made on the squares)
NoSound(a) == SumSquares(a) < MIN_AUDIO_ENERGY * MIN_AUDIO_ENERGY * NumSamples(a)

\* deque(maxlen=MAX_HISTORY).append in the place of appendleft: the entry goes to
\* the back, and a full deque drops its first entry
append_right(h, e) ==
    LET l == h \o <<e>> IN IF Len(l) > MAX_HISTORY THEN SubSeq(l, 2, MAX_HISTORY + 1) ELSE l

\* deque(maxlen=MAX_HISTORY).appendleft: the entry goes to the front, and a full
\* deque drops its last entry
appendleft(h, e) ==
    LET l == <<e>> \o h IN IF Len(l) > MAX_HISTORY THEN SubSeq(l, 1, MAX_HISTORY) ELSE l

\* the chunks appended so far, over all list objects
RECURSIVE Appended(_)
Appended(b) == Len(bufs[b]) + (IF b = 0 THEN 0 ELSE Appended(b - 1))

\* the recording mode the flags show: Idle (recording false, toggle_mode false),
\* Momentary (recording true, toggle_mode false), Continuous (both true); the
\* fourth combination, toggle_mode true without a recording, is no mode
Mode ==
    IF recording
      THEN (IF toggle_mode THEN "Continuous" ELSE "Momentary")
      ELSE (IF toggle_mode THEN "Inconsistent" ELSE "Idle")

\* threading.Thread(target=stop_recording).start()
SpawnStop ==
    /\ nworkers' = nworkers + 1
    /\ wpc' = [wpc EXCEPT ![nworkers + 1] = "s89"]

\* a stop worker that has not been spawned, or has returned or died
Finished(w) == wpc[w] \in {"unborn", "done", "died", "failed"}

Init ==
    /\ recording = FALSE
    /\ toggle_mode = FALSE
    /\ shift_held = FALSE
    /\ audio_data = 0
    /\ bufs = [b \in 0..MaxSessions |-> <<>>]
    /\ stream = 0
    /\ streams = [s \in Sessions |-> "none"]
    /\ title = "mic"
    /\ history = <<>>
    /\ clipboard = <<>>
    /\ pasted = <<>>
    /\ lpc = "idle"
    /\ holdDown = FALSE
    /\ shiftDown = FALSE
    /\ nsess = 0
    /\ nworkers = 0
    /\ wpc = [w \in Workers |-> "unborn"]
    /\ audio = [w \in Workers |-> <<>>]
    /\ text = [w \in Workers |-> <<>>]
    /\ evals = [b \in 0..MaxSessions |-> 0]
    /\ held_start = "none"

\* ------------------------------------------------- key-listener thread
\* on_press(Key.shift)
on_press_shift ==
    /\ lpc = "idle" /\ ~shiftDown
    /\ shiftDown' = TRUE
    /\ shift_held' = TRUE
    /\ UNCHANGED << recording, toggle_mode, audio_data, bufs, stream, streams, title,
                    history, clipboard, pasted, lpc, holdDown, nsess, nworkers, wpc,
                    wlocals, ghosts >>

\* on_release(Key.shift) with the test of line 239 made for any key
on_release_shift_any_key ==
    /\ lpc = "idle" /\ shiftDown
    /\ nworkers < MaxWorkers
    /\ shiftDown' = FALSE
    /\ shift_held' = FALSE
    /\ IF ~toggle_mode
         THEN SpawnStop
         ELSE UNCHANGED << nworkers, wpc >>
    /\ UNCHANGED << recording, toggle_mode, audio_data, bufs, stream, streams, title,
                    history, clipboard, pasted, lpc, holdDown, nsess, wlocals, ghosts >>

\* on_release(Key.shift)
on_release_shift ==
    /\ lpc = "idle" /\ shiftDown
    /\ shiftDown' = FALSE
    /\ shift_held' = FALSE
    /\ UNCHANGED << recording, toggle_mode, audio_data, bufs, stream, streams, title,
                    history, clipboard, pasted, lpc, holdDown, nsess, nworkers, wpc,
                    wlocals, ghosts >>

\* on_press(HOLD_KEY) with the test of shift_held made before that of toggle_mode
on_press_hold_shift_first ==
    /\ lpc = "idle" /\ ~holdDown
    /\ nworkers < MaxWorkers /\ nsess < MaxSessions
    /\ holdDown' = TRUE
    /\ IF shift_held
         THEN /\ toggle_mode' = TRUE
              /\ lpc' = "s66"
              /\ held_start' = "none"
              /\ UNCHANGED << nworkers, wpc >>
         ELSE IF toggle_mode
         THEN /\ toggle_mode' = FALSE
              /\ SpawnStop
              /\ lpc' = "idle"
              /\ held_start' = "stop"
         ELSE /\ toggle_mode' = FALSE
              /\ lpc' = "s66"
              /\ held_start' = "none"
              /\ UNCHANGED << nworkers, wpc >>
    /\ UNCHANGED << recording, shift_held, audio_data, bufs, stream, streams, title,
                    history, clipboard, pasted, shiftDown, nsess, wlocals, evals >>

\* on_press(HOLD_KEY): the branch taken, up to the call of start_recording
on_press_hold ==
    /\ lpc = "idle" /\ ~holdDown
    /\ nworkers < MaxWorkers /\ nsess < MaxSessions
    /\ holdDown' = TRUE
    /\ IF toggle_mode
         THEN /\ toggle_mode' = FALSE
              /\ SpawnStop
              /\ lpc' = "idle"
              /\ held_start' = "stop"
         ELSE /\ toggle_mode' = shift_held
              /\ lpc' = "s66"
              /\ held_start' = "none"
              /\ UNCHANGED << nworkers, wpc >>
    /\ UNCHANGED << recording, shift_held, audio_data, bufs, stream, streams, title,
                    history, clipboard, pasted, shiftDown, nsess, wlocals, evals >>

\* on_release(HOLD_KEY) without the test of shift_held
on_release_hold_ignoring_shift ==
    /\ lpc = "idle" /\ holdDown
    /\ nworkers < MaxWorkers
    /\ holdDown' = FALSE
    /\ held_start' = "none"
    /\ IF ~toggle_mode
         THEN SpawnStop
         ELSE UNCHANGED << nworkers, wpc >>
    /\ UNCHANGED << shared, lpc, shiftDown, nsess, wlocals, evals >>

\* on_release(HOLD_KEY) calling stop_recording() itself, with no thread: the
\* listener is inside stop_recording until the pipeline has returned
on_release_hold_inline_stop ==
    /\ lpc = "idle" /\ holdDown
    /\ nworkers < MaxWorkers
    /\ holdDown' = FALSE
    /\ held_start' = "none"
    /\ IF ~toggle_mode /\ ~shift_held
         THEN SpawnStop /\ lpc' = "s89"
         ELSE UNCHANGED << nworkers, wpc, lpc >>
    /\ UNCHANGED << shared, shiftDown, nsess, wlocals, evals >>

\* on_release(HOLD_KEY)
on_release_hold ==
    /\ lpc = "idle" /\ holdDown
    /\ nworkers < MaxWorkers
    /\ holdDown' = FALSE
    /\ held_start' = "none"
    /\ IF ~toggle_mode /\ ~shift_held
         THEN SpawnStop
         ELSE UNCHANGED << nworkers, wpc >>
    /\ UNCHANGED << shared, lpc, shiftDown, nsess, wlocals, evals >>

\* start_recording without the check of line 66
start_recording_66_unchecked ==
    /\ lpc = "s66"
    /\ lpc' = "s68"
    /\ UNCHANGED << shared, keys, nsess, nworkers, wpc, wlocals, ghosts >>

\* start_recording, line 66: if recording: return
start_recording_66 ==
    /\ lpc = "s66"
    /\ lpc' = IF recording THEN "idle" ELSE "s68"
    /\ UNCHANGED << shared, keys, nsess, nworkers, wpc, wlocals, ghosts >>

\* start_recording, line 68: recording = True
start_recording_68 ==
    /\ lpc = "s68"
    /\ recording' = TRUE
    /\ nsess' = nsess + 1
    /\ held_start' = IF toggle_mode THEN "continuous" ELSE "momentary"
    /\ lpc' = "s69"
    /\ UNCHANGED << toggle_mode, shift_held, audio_data, bufs, stream, streams, title,
                    history, clipboard, pasted, keys, nworkers, wpc, wlocals, evals >>

\* start_recording, lines 69-70: audio_data = []; update_icon("recording")
start_recording_69 ==
    /\ lpc = "s69"
    /\ audio_data' = nsess
    /\ title' = "rec"
    /\ lpc' = "s78"
    /\ UNCHANGED << recording, toggle_mode, shift_held, bufs, stream, streams,
                    history, clipboard, pasted, keys, nsess, nworkers, wpc, wlocals, ghosts >>

\* start_recording, lines 77-83: stream = sd.InputStream(...)
start_recording_78 ==
    /\ lpc = "s78"
    /\ streams' = [streams EXCEPT ![nsess] = "opened"]
    /\ stream' = nsess
    /\ lpc' = "s84"
    /\ UNCHANGED << recording, toggle_mode, shift_held, audio_data, bufs, title,
                    history, clipboard, pasted, keys, nsess, nworkers, wpc, wlocals, ghosts >>

\* start_recording, line 84: stream.start()
start_recording_84 ==
    /\ lpc = "s84"
    /\ streams' = [streams EXCEPT ![stream] = "active"]
    /\ lpc' = "idle"
    /\ UNCHANGED << recording, toggle_mode, shift_held, audio_data, bufs, stream, title,
                    history, clipboard, pasted, keys, nsess, nworkers, wpc, wlocals, ghosts >>

\* start_recording, lines 78 and 84: the stream constructor or stream.start() raises
\* (no input device).  Nothing catches it: it leaves start_recording and on_press,
\* and the keyboard.Listener that called on_press stops.
start_recording_raise ==
    /\ lpc \in {"s78", "s84"}
    /\ lpc' = "dead"
    /\ UNCHANGED << shared, keys, nsess, nworkers, wpc, wlocals, ghosts >>

\* ---------------------------------------------------- audio I/O context
\* callback of stream s: if recording: audio_data.append(indata.copy())
callback(s) ==
    /\ streams[s] = "active"
    /\ recording
    /\ Appended(MaxSessions) < MaxFrames
    /\ \E k \in BlockSizes, a \in Levels :
          bufs' = [bufs EXCEPT ![audio_data] = Append(@, [n |-> k, amp |-> a])]
    /\ UNCHANGED << recording, toggle_mode, shift_held, audio_data, stream, streams, title,
                    history, clipboard, pasted, lpc, keys, nsess, nworkers, wpc,
                    wlocals, ghosts >>

\* ------------------------------------------------------- stop workers
\* stop_recording, line 89: if not recording: return
stop_recording_89(w) ==
    /\ wpc[w] = "s89"
    /\ wpc' = [wpc EXCEPT ![w] = IF recording THEN "s91" ELSE "done"]
    /\ UNCHANGED << shared, lpc, keys, nsess, nworkers, wlocals, ghosts >>

\* stop_recording, line 91: recording = False
stop_recording_91(w) ==
    /\ wpc[w] = "s91"
    /\ recording' = FALSE
    /\ wpc' = [wpc EXCEPT ![w] = "s92"]
    /\ UNCHANGED << toggle_mode, shift_held, audio_data, bufs, stream, streams, title,
                    history, clipboard, pasted, lpc, keys, nsess, nworkers, wlocals,
                    ghosts >>

\* stop_recording, line 92: stream.stop(), on the stream the global is bound to now.
\* Stopping a stream that is not running is an error the library ignores
\* (ignore_errors=True); an unbound global is a NameError that ends the thread.
stop_recording_92(w) ==
    /\ wpc[w] = "s92"
    /\ IF stream = 0
         THEN /\ wpc' = [wpc EXCEPT ![w] = "died"]
              /\ UNCHANGED streams
         ELSE /\ wpc' = [wpc EXCEPT ![w] = "s93"]
              /\ streams' = [streams EXCEPT
                    ![stream] = IF @ = "active" THEN "stopped" ELSE @]
    /\ UNCHANGED << recording, toggle_mode, shift_held, audio_data, bufs, stream, title,
                    history, clipboard, pasted, lpc, keys, nsess, nworkers, wlocals, ghosts >>

\* stop_recording, lines 93-94: stream.close(), on the stream the global is bound
\* to now; update_icon("idle")
stop_recording_93(w) ==
    /\ wpc[w] = "s93"
    /\ streams' = [streams EXCEPT ![stream] = "closed"]
    /\ title' = "mic"
    /\ wpc' = [wpc EXCEPT ![w] = "s97"]
    /\ UNCHANGED << recording, toggle_mode, shift_held, audio_data, bufs, stream,
                    history, clipboard, pasted, lpc, keys, nsess, nworkers, wlocals, ghosts >>

\* stop_recording, lines 97-99: if not audio_data: return
stop_recording_97(w) ==
    /\ wpc[w] = "s97"
    /\ evals' = [evals EXCEPT ![audio_data] = @ + 1]
    /\ wpc' = [wpc EXCEPT ![w] = IF bufs[audio_data] = <<>> THEN "done" ELSE "s102"]
    /\ UNCHANGED << shared, lpc, keys, nsess, nworkers, wlocals, held_start >>

\* stop_recording, lines 101-117, without the duration gate of lines 105-108
stop_recording_102_no_duration_gate(w) ==
    /\ wpc[w] = "s102"
    /\ LET a == bufs[audio_data] IN
         IF a = <<>>
           THEN /\ wpc' = [wpc EXCEPT ![w] = "died"]
                /\ UNCHANGED audio
           ELSE IF NoSound(a)
           THEN /\ wpc' = [wpc EXCEPT ![w] = "done"]
                /\ UNCHANGED audio
           ELSE /\ wpc' = [wpc EXCEPT ![w] = "engine"]
                /\ audio' = [audio EXCEPT ![w] = a]
    /\ UNCHANGED << shared, lpc, keys, nsess, nworkers, text, ghosts >>

\* stop_recording, lines 101-117: audio = np.concatenate(audio_data, axis=0).flatten(),
\* a second read of the global (np.concatenate raises ValueError on an empty list,
\* which ends the thread); the duration gate, then the energy gate, on the local;
\* the call of model.transcribe(audio, fp16=False)
stop_recording_102(w) ==
    /\ wpc[w] = "s102"
    /\ LET a == bufs[audio_data] IN
         IF a = <<>>
           THEN /\ wpc' = [wpc EXCEPT ![w] = "died"]
                /\ UNCHANGED audio
           ELSE IF TooShort(a) \/ NoSound(a)
           THEN /\ wpc' = [wpc EXCEPT ![w] = "done"]
                /\ UNCHANGED audio
           ELSE /\ wpc' = [wpc EXCEPT ![w] = "engine"]
                /\ audio' = [audio EXCEPT ![w] = a]
    /\ UNCHANGED << shared, lpc, keys, nsess, nworkers, text, ghosts >>

\* stop_recording, lines 117-128 and 136-137: model.transcribe returns;
\* text = result["text"].strip(); if text: history.appendleft((timestamp, text));
\* update_menu().  The worker stands for the timestamp.
stop_recording_117_return(w) ==
    /\ wpc[w] = "engine"
    /\ \E t \in EngineTexts :
          IF strip(t) # <<>>
            THEN /\ text' = [text EXCEPT ![w] = strip(t)]
                 /\ history' = appendleft(history, [by |-> w, text |-> strip(t)])
                 /\ wpc' = [wpc EXCEPT ![w] = "s130"]
                 /\ UNCHANGED audio
            ELSE /\ wpc' = [wpc EXCEPT ![w] = "done"]
                 /\ audio' = [audio EXCEPT ![w] = <<>>]
                 /\ UNCHANGED << text, history >>
    /\ UNCHANGED << recording, toggle_mode, shift_held, audio_data, bufs, stream, streams,
                    title, clipboard, pasted, lpc, keys, nsess, nworkers, ghosts >>

\* stop_recording, line 117: model.transcribe raises.  Nothing catches it: the
\* exception ends the worker thread, and only that thread.
stop_recording_117_raise(w) ==
    /\ wpc[w] = "engine"
    /\ wpc' = [wpc EXCEPT ![w] = "failed"]
    /\ audio' = [audio EXCEPT ![w] = <<>>]
    /\ UNCHANGED << shared, lpc, keys, nsess, nworkers, text, ghosts >>

\* stop_recording, line 130: pyperclip.copy(text)
stop_recording_130(w) ==
    /\ wpc[w] = "s130"
    /\ clipboard' = text[w]
    /\ wpc' = [wpc EXCEPT ![w] = "s132"]
    /\ UNCHANGED << recording, toggle_mode, shift_held, audio_data, bufs, stream, streams,
                    title, history, pasted, lpc, keys, nsess, nworkers, wlocals, ghosts >>

\* stop_recording, lines 132-135: Cmd+V, which pastes what the clipboard holds now;
\* the function returns and its locals are gone
stop_recording_132(w) ==
    /\ wpc[w] = "s132"
    /\ pasted' = Append(pasted, [by |-> w, text |-> clipboard])
    /\ wpc' = [wpc EXCEPT ![w] = "done"]
    /\ audio' = [audio EXCEPT ![w] = <<>>]
    /\ text' = [text EXCEPT ![w] = <<>>]
    /\ UNCHANGED << recording, toggle_mode, shift_held, audio_data, bufs, stream, streams,
                    title, history, clipboard, lpc, keys, nsess, nworkers, ghosts >>

\* ------------------------------------------------------- specification
Next ==
    \/ on_press_shift
    \/ on_release_shift
    \/ on_press_hold
    \/ on_release_hold
    \/ start_recording_66
    \/ start_recording_68
    \/ start_recording_69
    \/ start_recording_78
    \/ start_recording_84
    \/ start_recording_raise
    \/ \E s \in Sessions : callback(s)
    \/ \E w \in Workers :
          \/ stop_recording_89(w)
          \/ stop_recording_91(w)
          \/ stop_recording_92(w)
          \/ stop_recording_93(w)
          \/ stop_recording_97(w)
          \/ stop_recording_102(w)
          \/ stop_recording_117_return(w)
          \/ stop_recording_117_raise(w)
          \/ stop_recording_130(w)
          \/ stop_recording_132(w)

Spec == Init /\ [][Next]_vars

\* ------------------------------------- the pipeline on a recorded buffer
\* one session has recorded the buffer b (any number of callbacks have run), the
\* hold key has been released and the stop worker of line 240 has been spawned
GateInit ==
    /\ recording = TRUE
    /\ toggle_mode = FALSE
    /\ shift_held = FALSE
    /\ audio_data = 1
    /\ \E b \in GateBuffers : bufs = [i \in 0..MaxSessions |-> IF i = 1 THEN b ELSE <<>>]
    /\ stream = 1
    /\ streams = [s \in Sessions |-> IF s = 1 THEN "active" ELSE "none"]
    /\ title = "rec"
    /\ history = <<>>
    /\ clipboard = <<>>
    /\ pasted = <<>>
    /\ lpc = "idle"
    /\ holdDown = FALSE
    /\ shiftDown = FALSE
    /\ nsess = 1
    /\ nworkers = 1
    /\ wpc = [w \in Workers |-> IF w = 1 THEN "s89" ELSE "unborn"]
    /\ audio = [w \in Workers |-> <<>>]
    /\ text = [w \in Workers |-> <<>>]
    /\ evals = [b \in 0..MaxSessions |-> 0]
    /\ held_start = "none"

\* stop_recording run by the worker, no key event and no callback meanwhile
GateNext ==
    \E w \in Workers :
       \/ stop_recording_89(w)
       \/ stop_recording_91(w)
       \/ stop_recording_92(w)
       \/ stop_recording_93(w)
       \/ stop_recording_97(w)
       \/ stop_recording_102(w)
       \/ stop_recording_117_return(w)
       \/ stop_recording_117_raise(w)
       \/ stop_recording_130(w)
       \/ stop_recording_132(w)

GateSpec == GateInit /\ [][GateNext]_vars

\* --------------------------------------------- the history and its menu
\* the history left by l earlier accepted results, newest first.  In an entry the
\* worker stands for the timestamp; the entries of earlier runs carry the numbers
\* above MaxWorkers, the oldest the lowest.
EarlierHistory(l) == [i \in 1..l |-> [by |-> MaxWorkers + l - i + 1, text |-> <<"a">>]]

\* clear_history, the callback of the menu item "Clear History"
clear_history ==
    /\ history' = <<>>
    /\ UNCHANGED << recording, toggle_mode, shift_held, audio_data, bufs, stream, streams,
                    title, clipboard, pasted, lpc, keys, nsess, nworkers, wpc, wlocals,
                    ghosts >>

\* one session has recorded a loud second of audio and its stop worker has been
\* spawned, after any number of earlier accepted results
HistInit ==
    /\ recording = TRUE
    /\ toggle_mode = FALSE
    /\ shift_held = FALSE
    /\ audio_data = 1
    /\ bufs = [i \in 0..MaxSessions |->
                 IF i = 1 THEN << [n |-> SAMPLE_RATE, amp |-> 2] >> ELSE <<>>]
    /\ stream = 1
    /\ streams = [s \in Sessions |-> IF s = 1 THEN "active" ELSE "none"]
    /\ title = "rec"
    /\ \E l \in 0..MAX_HISTORY : history = EarlierHistory(l)
    /\ clipboard = <<>>
    /\ pasted = <<>>
    /\ lpc = "idle"
    /\ holdDown = FALSE
    /\ shiftDown = FALSE
    /\ nsess = 1
    /\ nworkers = 1
    /\ wpc = [w \in Workers |-> IF w = 1 THEN "s89" ELSE "unborn"]
    /\ audio = [w \in Workers |-> <<>>]
    /\ text = [w \in Workers |-> <<>>]
    /\ evals = [b \in 0..MaxSessions |-> 0]
    /\ held_start = "none"

HistNext == GateNext \/ clear_history

HistSpec == HistInit /\ [][HistNext]_vars

\* ---------------------------------------------------------- properties
\* no step is in progress: the listener is between two key events and every
\* stop worker spawned has ended
Quiescent == lpc = "idle" /\ \A w \in Workers : Finished(w)

HoldPressStep == ~holdDown /\ holdDown'
HoldReleaseStep == holdDown /\ ~holdDown'
StopIssued == nworkers' = nworkers + 1

\* C1: at most one capture session exists at a time: never are two audio input
\* streams both started and not yet stopped or closed.
C1_OneCaptureSession == Cardinality({s \in Sessions : streams[s] = "active"}) <= 1

\* C2: each capture session that is ended is handed to the pipeline exactly once:
\* no buffer is evaluated twice, and once everything has come to rest with the
\* recording ended, the buffer of every session has been evaluated.
C2_EvaluatedExactlyOnce ==
    /\ \A b \in 0..MaxSessions : evals[b] <= 1
    /\ (Quiescent /\ ~recording) => \A b \in 1..nsess : evals[b] = 1

\* C3: the mode never goes directly from Momentary to Continuous or from
\* Continuous to Momentary.
C3_NoDirectModeSwitch ==
    [][ /\ ~(Mode = "Momentary" /\ Mode' = "Continuous")
        /\ ~(Mode = "Continuous" /\ Mode' = "Momentary") ]_vars

\* C4: at most one transcription is in flight: never are two stop workers both
\* inside model.transcribe.
C4_OneTranscriptionInFlight == Cardinality({w \in Workers : wpc[w] = "engine"}) <= 1

\* C5: every capture session has a matching stop: when recording is false and no
\* stop worker is still running, no audio stream remains open.
C5_EveryStreamClosed ==
    (~recording /\ \A w \in Workers : Finished(w))
        => \A s \in Sessions : streams[s] \in {"none", "closed"}

\* C6: when opening the audio input stream fails, the mode is Idle afterwards
\* (recording false, toggle_mode false).
C6_FailedStartLeavesIdle == lpc = "dead" => (~recording /\ ~toggle_mode)

\* C7: an engine failure inside a stop worker is contained to that recording:
\* when the one stop worker of the one session so far has failed in the engine,
\* no result was emitted (history, clipboard and paste untouched), the key listener
\* is alive and, between two key events, the state left behind is Idle, so that
\* the next hold-key press starts a capture session.
C7_EngineFailureContained ==
    (nsess = 1 /\ nworkers = 1 /\ wpc[1] = "failed")
      => /\ history = <<>> /\ clipboard = <<>> /\ pasted = <<>>
         /\ lpc # "dead"
         /\ lpc = "idle" => Mode = "Idle"

\* C8: for every combination of mode and shift_held, a hold-key press issues a
\* stop if the mode is Continuous (whatever shift_held), otherwise a start in
\* Continuous mode if shift_held, otherwise a start in Momentary mode; it issues
\* that one command and no other.
C8_HoldPressPolicy ==
    [][ HoldPressStep =>
          /\ Mode = "Continuous" => (StopIssued /\ lpc' = "idle")
          /\ (Mode \in {"Idle", "Momentary"} /\ shift_held)
                => (lpc' = "s66" /\ toggle_mode' /\ ~StopIssued)
          /\ (Mode \in {"Idle", "Momentary"} /\ ~shift_held)
                => (lpc' = "s66" /\ ~toggle_mode' /\ ~StopIssued) ]_vars

\* C8 witness: the hold key is down, shift is held, and this hold-key press has
\* issued the stop of the Continuous recording.
C8_StopIssuedWithShiftHeld ==
    /\ holdDown /\ shift_held /\ held_start = "stop"
    /\ nsess = 1 /\ nworkers = 1 /\ ~toggle_mode

\* C9: a hold-key release issues a stop only when the mode is Momentary and
\* shift_held is false; when the mode is Continuous or shift is held it changes
\* nothing; so a Continuous recording is left only by a hold-key press.
C9_HoldReleasePolicy ==
    [][ /\ HoldReleaseStep =>
            /\ StopIssued => (Mode = "Momentary" /\ ~shift_held)
            /\ (Mode = "Continuous" \/ shift_held)
                  => UNCHANGED << shared, lpc, nworkers, wpc >>
        /\ (Mode = "Continuous" /\ Mode' # "Continuous") => HoldPressStep ]_vars

\* C10, as stated: a recording started by a hold-key press without shift always
\* ends at the release of that press: the release issues the stop.
C10_MomentaryEndsAtRelease ==
    [][ (HoldReleaseStep /\ held_start = "momentary") => StopIssued ]_vars

\* C10, amended: a recording started by a hold-key press without shift ends at the
\* release of that press if and only if shift is not held at the release.
C10_MomentaryEndsUnlessShiftAtRelease ==
    [][ (HoldReleaseStep /\ held_start = "momentary")
          => (StopIssued <=> ~shift_held) ]_vars

\* C10 witness: one session was started without shift, the hold key is up again,
\* no stop was ever issued and the recording is still active.
C10_MomentaryOutlivesRelease ==
    /\ nsess = 1 /\ nworkers = 0
    /\ lpc = "idle" /\ ~holdDown
    /\ recording /\ ~toggle_mode /\ shift_held
    /\ streams[1] = "active"

\* a step of the key-listener thread that leaves line 66 of start_recording
StartCheckStep == lpc = "s66" /\ lpc' # "s66"

\* C11: a start request made while recording is true is a no-op: start_recording
\* returns at once, no session is added, no stream is opened or rebound, and the
\* audio buffer is neither rebound nor changed.
C11_StartWhileRecordingIsNoOp ==
    [][ (StartCheckStep /\ recording) =>
          /\ lpc' = "idle"
          /\ UNCHANGED << recording, nsess, stream, streams, audio_data, bufs >> ]_vars

\* C11 witness: the hold key is down and its press has called start_recording,
\* which returned without starting anything: the one session started earlier is
\* still the only one, its stream is active and its buffer keeps its chunk.
C11_SecondStartReturned ==
    /\ holdDown /\ lpc = "idle" /\ held_start = "none"
    /\ recording /\ nsess = 1 /\ nworkers = 0
    /\ stream = 1 /\ streams[1] = "active"
    /\ audio_data = 1 /\ bufs[1] # <<>>

\* every sample of the buffer is zero
AllZero(a) == \A i \in 1..Len(a) : a[i].amp = 0

\* C12: the engine is invoked only for a buffer that is non-empty, lasts at least
\* half a second (2 * samples >= 16000) and whose RMS amplitude is at least the
\* threshold (sum of squares >= samples, in units of the threshold); so a buffer
\* shorter than half a second never reaches the engine, whatever its amplitude,
\* and neither does an all-zero buffer, whatever its length.
C12_EngineOnlyPastGates ==
    [][ \A w \in Workers :
          (wpc[w] # "engine" /\ wpc'[w] = "engine") =>
             LET a == bufs[audio_data] IN
               /\ audio'[w] = a
               /\ a # <<>>
               /\ NumSamples(a) * 2 >= SAMPLE_RATE
               /\ SumSquares(a) >= NumSamples(a)
               /\ ~AllZero(a) ]_vars

\* C12 witness: the stop worker has returned without a result on a buffer that is
\* one sample short of half a second and twice as loud as the threshold.
C12_LoudShortBufferRejected ==
    /\ wpc[1] = "done" /\ evals[1] = 1
    /\ bufs[1] = << [n |-> SAMPLE_RATE \div 2 - 1, amp |-> 2] >>
    /\ history = <<>> /\ clipboard = <<>> /\ pasted = <<>>

\* the history entries and the paste keystrokes of the pipeline run of worker w
HistoryOf(w) == {i \in 1..Len(history) : history[i].by = w}
PastesOf(w) == {i \in 1..Len(pasted) : pasted[i].by = w}

\* C13: a pipeline run emits its result exactly once if the engine returned a text
\* that is non-empty once trimmed, and nothing otherwise: a run that has not got
\* such a text, or was rejected, has no history entry and no paste; a run that has
\* returned has at most one history entry and as many pastes, and what it pasted
\* is the text of its own history entry.
C13_ResultEmittedOnce ==
    \A w \in Workers :
       /\ Cardinality(HistoryOf(w)) <= 1 /\ Cardinality(PastesOf(w)) <= 1
       /\ wpc[w] \notin {"s130", "s132", "done"} => (HistoryOf(w) = {} /\ PastesOf(w) = {})
       /\ wpc[w] = "done" =>
             /\ Cardinality(PastesOf(w)) = Cardinality(HistoryOf(w))
             /\ \A i \in HistoryOf(w), j \in PastesOf(w) : pasted[j].text = history[i].text

ShiftStep == shiftDown' # shiftDown

\* C14: a shift press or release changes shift_held and nothing else: recording,
\* toggle_mode, the audio buffer, the streams and the stop workers are as before,
\* and start_recording is not entered.
C14_ShiftOnlySetsShiftHeld ==
    [][ ShiftStep =>
          /\ shift_held' = shiftDown'
          /\ UNCHANGED << recording, toggle_mode, audio_data, bufs, stream, streams,
                          title, history, clipboard, pasted, lpc, holdDown, nsess,
                          nworkers, wpc, wlocals >> ]_vars

\* C14 witness: shift has been pressed while a Momentary recording with audio in
\* its buffer is held; the recording goes on and no stop worker exists.
C14_ShiftPressedWhileRecording ==
    /\ holdDown /\ shiftDown /\ shift_held /\ lpc = "idle"
    /\ recording /\ ~toggle_mode /\ held_start = "momentary"
    /\ nsess = 1 /\ nworkers = 0
    /\ streams[1] = "active" /\ bufs[1] # <<>>

\* C15: the history never holds more than 10 entries and is newest first: an
\* accepted result is inserted at the front, every older entry moves down by one,
\* a full history loses its last (oldest) entry and no other; clear_history
\* empties it; nothing else changes it.
C15_HistoryBoundedNewestFirst ==
    [][ /\ Len(history) <= 10 /\ Len(history') <= 10
        /\ (history' # history /\ wpc' # wpc) =>
              /\ \E w \in Workers : wpc[w] = "engine" /\ wpc'[w] = "s130"
                                      /\ history'[1] = [by |-> w, text |-> text'[w]]
              /\ Len(history') = (IF Len(history) < 10 THEN Len(history) + 1 ELSE 10)
              /\ \A i \in 2..Len(history') : history'[i] = history[i - 1]
        /\ (history' # history /\ wpc' = wpc) => history' = <<>> ]_vars

\* C15 witness: the history was full when the result of worker 1 arrived: it is
\* at the front, ten entries are held, and the oldest earlier entry is gone.
C15_OldestEvicted ==
    /\ Len(history) = 10
    /\ history[1].by = 1
    /\ history[10].by = MaxWorkers + 2

\* a stop worker has cleared the recording flag (line 91) and has not yet closed
\* the stream (line 93)
StopInProgress == \E w \in Workers : wpc[w] \in {"s92", "s93"}

\* C16: a stop is atomic with respect to start requests: while a stop worker is
\* between clearing the recording flag and having closed the stream, no
\* start_recording takes effect: no session is started, no stream is opened, and
\* the globals stream and audio_data are not rebound.
C16_StopAtomicWrtStart ==
    [][ StopInProgress =>
          /\ UNCHANGED << nsess, stream, audio_data >>
          /\ ~(~recording /\ recording')
          /\ \A s \in Sessions : streams[s] = "none" => streams'[s] = "none" ]_vars

\* C17: the buffer of a session holds exactly the frames its own stream delivered
\* between its start and its stop: a buffer is empty when audio_data is bound to
\* it, a chunk is appended to the buffer of session b only while the stream of
\* session b is running, and never once a stop worker has read the buffer.
C17_BufferHoldsOwnFramesOnly ==
    [][ /\ audio_data' # audio_data => bufs'[audio_data'] = <<>>
        /\ \A b \in 0..MaxSessions :
              bufs'[b] # bufs[b] =>
                 /\ b \in Sessions
                 /\ streams[b] = "active"
                 /\ evals[b] = 0 ]_vars

\* a stop worker is inside model.transcribe
Transcribing == \E w \in Workers : wpc[w] = "engine"

\* C18: stop_recording runs on worker threads only: a stop worker is spawned by a
\* hold-key press or release and by nothing else, the handler that spawns it
\* returns in the same step, before the worker has run a line; no step of the
\* pipeline moves the listener; and while a transcription is in progress and the
\* listener is between two events, a key event can be routed.
C18_PipelineOffListener ==
    [][ /\ StopIssued =>
              /\ HoldPressStep \/ HoldReleaseStep
              /\ lpc' = "idle"
              /\ wpc' = [wpc EXCEPT ![nworkers + 1] = "s89"]
        /\ (wpc' # wpc /\ ~StopIssued) => UNCHANGED << lpc, keys >>
        /\ (Transcribing /\ lpc = "idle") => ENABLED (on_press_shift \/ on_release_shift)
      ]_vars

\* C18 witness: worker 1 is inside model.transcribe on the audio of session 1,
\* while the listener has handled the next hold-key press and returned: session 2
\* is recording.
C18_RecordingWhileTranscribing ==
    /\ wpc[1] = "engine" /\ audio[1] = bufs[1]
    /\ lpc = "idle" /\ holdDown /\ held_start = "momentary"
    /\ nsess = 2 /\ recording /\ stream = 2
    /\ streams = << "closed", "active" >>

\* C19: the two mode flags stay consistent: whenever no key handler is running
\* and no stop worker is pending or running, toggle_mode true implies recording
\* true.
C19_ToggleImpliesRecording == Quiescent => (toggle_mode => recording)

\* C20: no hold-key press is lost: while the hold key is down, its press did not
\* end a Continuous recording, its handler has returned and every stop worker has
\* finished, a capture session is active: recording is true and a stream runs.
C20_NoHoldPressLost ==
    (holdDown /\ lpc = "idle" /\ held_start # "stop" /\ \A w \in Workers : Finished(w))
       => (recording /\ \E s \in Sessions : streams[s] = "active")

====
